---- MODULE Spec2Model ----
(***************************************************************************)
(* A model of the S3 file manager: S3Manager (src/app.py), the advanced    *)
(* operations of S3AdvancedManager (src/utils/s3_advanced.py) and the      *)
(* object store they call.                                                 *)
(*                                                                         *)
(* A string is a sequence of one-character strings, so that strip,         *)
(* startswith, split and replace are computed as Python computes them.     *)
(* A body (the bytes of an object) is a sequence of byte values.           *)
(***************************************************************************)
EXTENDS Integers, Sequences, FiniteSets, TLC

\* ------------------------------------------------------------------ bounds

\* The longest path string given to the path formatter.
MaxPathLen == 4

\* The most objects the bucket holds when an operation is called.
MaxObjects == 3

\* The longest key a rename may write.
MaxKeyLen == 9

\* The most entries the object store returns in one listing response
\* (MaxKeys, 1000 in S3), scaled down.
PageSize == 2

\* ----------------------------------------------------------------- strings

\* The characters of the modelled strings: the delimiter, the letter of
\* the root prefix, one other letter and its capital.
Chars == {"/", "r", "a", "A"}

Slash == <<"/">>

\* aws_config.get('app_prefix', 'streamlit-app'): a non-empty name without '/'.
app_prefix == <<"r">>

\* str.startswith
StartsWith(s, p) == Len(p) <= Len(s) /\ SubSeq(s, 1, Len(p)) = p

\* str.endswith
EndsWith(s, p) == Len(p) <= Len(s) /\ SubSeq(s, Len(s) - Len(p) + 1, Len(s)) = p

\* str.lstrip('/')
RECURSIVE LStrip(_)
LStrip(s) == IF s # <<>> /\ Head(s) = "/" THEN LStrip(Tail(s)) ELSE s

\* str.rstrip('/')
RECURSIVE RStrip(_)
RStrip(s) ==
    IF s # <<>> /\ s[Len(s)] = "/" THEN RStrip(SubSeq(s, 1, Len(s) - 1)) ELSE s

\* str.strip('/')
Strip(s) == RStrip(LStrip(s))

\* The positions of '/' in s.
SlashPositions(s) == {i \in 1..Len(s) : s[i] = "/"}

\* The position of the last '/' in s, 0 when there is none.
LastSlash(s) ==
    IF SlashPositions(s) = {} THEN 0
    ELSE CHOOSE i \in SlashPositions(s) : \A j \in SlashPositions(s) : j <= i

\* s.split('/')[-1]
LastSegment(s) == SubSeq(s, LastSlash(s) + 1, Len(s))

\* '/'.join(s.split('/')[:-1])
JoinAllButLast(s) == SubSeq(s, 1, LastSlash(s) - 1)

\* The first position at which t occurs in s, 0 when it does not.
Find(s, t) ==
    LET at == {i \in 1..(Len(s) - Len(t) + 1) : SubSeq(s, i, i + Len(t) - 1) = t}
    IN  IF at = {} THEN 0 ELSE CHOOSE i \in at : \A j \in at : i <= j

\* `t in s`
Contains(s, t) == t = <<>> \/ Find(s, t) > 0

\* s.replace(old, new, 1), for a non-empty old
ReplaceFirst(s, old, new) ==
    LET i == Find(s, old)
    IN  IF i = 0 THEN s
        ELSE SubSeq(s, 1, i - 1) \o new \o SubSeq(s, i + Len(old), Len(s))

\* str.lower
Lower(s) == [i \in 1..Len(s) |-> IF s[i] = "A" THEN "a" ELSE s[i]]

\* All strings over Chars of length at most n.
StringsUpTo(n) == UNION {[1..k -> Chars] : k \in 0..n}

\* ---------------------------------------------------------- path formatter

\* A formatter that prepends the root prefix without looking at the path.
format_path_always_prepends(path) ==
    IF path = <<>> THEN app_prefix \o Slash
    ELSE LET stripped == Strip(path)
             rooted == app_prefix \o Slash \o stripped
         IN  IF EndsWith(rooted, Slash) THEN rooted ELSE rooted \o Slash

\* S3Manager.format_path
format_path(path) ==
    IF path = <<>> THEN app_prefix \o Slash
    ELSE LET stripped == Strip(path)
             rooted == IF ~StartsWith(stripped, app_prefix)
                       THEN app_prefix \o Slash \o stripped
                       ELSE stripped
         IN  IF ~EndsWith(rooted, Slash) THEN rooted \o Slash ELSE rooted

\* S3AdvancedManager._format_path
_format_path(path) ==
    IF path = <<>> THEN app_prefix \o Slash
    ELSE LET stripped == Strip(path)
             rooted == IF ~StartsWith(stripped, app_prefix)
                       THEN app_prefix \o Slash \o stripped
                       ELSE stripped
         IN  IF ~EndsWith(rooted, Slash) THEN rooted \o Slash ELSE rooted

\* A key or prefix that lies under the root prefix: it begins with 'root/'.
Rooted(s) == StartsWith(s, app_prefix \o Slash)

\* ------------------------------------------------------------ object store

\* The byte order of the characters, the order in which the store lists keys.
CharRank(c) == CASE c = "/" -> 47 [] c = "A" -> 65 [] c = "a" -> 97 [] c = "r" -> 114

\* a sorts strictly before b.
RECURSIVE KeyLess(_, _)
KeyLess(a, b) ==
    IF a = <<>> THEN b # <<>>
    ELSE IF b = <<>> THEN FALSE
    ELSE IF Head(a) = Head(b) THEN KeyLess(Tail(a), Tail(b))
    ELSE CharRank(Head(a)) < CharRank(Head(b))

\* The strings of S in listing order.
RECURSIVE Sorted(_)
Sorted(S) ==
    IF S = {} THEN <<>>
    ELSE LET least == CHOOSE x \in S : \A y \in S \ {x} : KeyLess(x, y)
         IN  <<least>> \o Sorted(S \ {least})

\* The first n elements of a sequence.
Take(q, n) == SubSeq(q, 1, IF Len(q) < n THEN Len(q) ELSE n)

\* The elements of a sequence.
Range(q) == {q[i] : i \in 1..Len(q)}

\* The bodies objects hold: empty, and one byte.
Bodies == {<<>>, <<1>>}

\* The keys of the bucket st that begin with prefix.
KeysUnder(st, prefix) == {k \in DOMAIN st : StartsWith(k, prefix)}

\* What a delimiter listing shows for key k under prefix: the key itself, or
\* the common prefix up to the first '/' after prefix.
RollUp(k, prefix) ==
    LET rest == SubSeq(k, Len(prefix) + 1, Len(k))
        cut == SlashPositions(rest)
        first == CHOOSE i \in cut : \A j \in cut : i <= j
    IN  IF cut = {} THEN k ELSE prefix \o SubSeq(rest, 1, first)

\* list_objects_v2(Prefix=prefix, Delimiter='/'): one response, holding the
\* first PageSize entries (keys and common prefixes together) in key order.
ListV2Delimited(st, prefix) ==
    LET entries == Take(Sorted({RollUp(k, prefix) : k \in KeysUnder(st, prefix)}),
                        PageSize)
        IsPrefix(e) == SlashPositions(SubSeq(e, Len(prefix) + 1, Len(e))) # {}
        IsKey(e) == ~IsPrefix(e)
    IN  [CommonPrefixes |-> SelectSeq(entries, IsPrefix),
         Contents |-> SelectSeq(entries, IsKey)]

\* list_objects_v2(Prefix=prefix) after the key `after` (the continuation
\* token; <<>> for the first response): the next PageSize keys in key order,
\* and whether more follow.
ListV2(st, prefix, after) ==
    LET rest == Sorted({k \in KeysUnder(st, prefix) : KeyLess(after, k)})
    IN  [Contents |-> Take(rest, PageSize), IsTruncated |-> Len(rest) > PageSize]

\* put_object / upload_fileobj
Put(st, key, body) == [k \in DOMAIN st \cup {key} |-> IF k = key THEN body ELSE st[k]]

\* delete_object / delete_objects
Remove(st, keys) == [k \in DOMAIN st \ keys |-> st[k]]

\* A copy that writes the key and loses the body.
CopyTruncated(st, src, dst) == Put(st, dst, <<>>)

\* copy_object
Copy(st, src, dst) == Put(st, dst, st[src])

EmptyStore == [k \in {} |-> <<>>]

\* A call made to the object store: the API called and the key or prefix
\* it was given.
Call(api, key) == [api |-> api, key |-> key]

\* ------------------------------------------------------------------- state

VARIABLES
    pc,         \* "idle", the step of the operation in progress, or "done"
    args,       \* the arguments of the last operation called
    ret,        \* what the last operation returned
    store,      \* the bucket: key -> body
    pre,        \* the bucket as it was when the last operation was called
    calls,      \* the object-store calls the last operation issued, in order
    connected,  \* S3Manager.connected
    rn,         \* rename_object's local variables while it runs
    ui          \* st.session_state and the widgets of the page

vars == <<pc, args, ret, store, pre, calls, connected, rn, ui>>

NoArgs == [op |-> "none"]
NoRet == [op |-> "none"]
NoRename == [old_path |-> <<>>]

\* An optional value: None, or Some(x).
None == <<>>
Some(x) == <<x>>

\* The session when the page is first shown: the root folder, nothing
\* listed or selected yet, no dialog open.  warned is what the user was
\* shown, not a value the script keeps: the paths of the rows that were
\* selected when "Click again to confirm deletion" was last displayed.
FreshPage ==
    [current_path |-> <<>>,
     all_items |-> <<>>,
     selected |-> {},
     to_delete |-> <<>>,
     confirm_delete |-> FALSE,
     warned |-> <<>>,
     renaming_item |-> None,
     preview_item |-> None,
     share_item |-> None,
     info_item |-> None]

\* What an operation hands back: its name, whether an object-store call
\* raised, whether the exception left the operation, and the value returned.
Returned(op, faulted, value) ==
    [op |-> op, faulted |-> faulted, escaped |-> FALSE, value |-> value]

\* An exception that leaves the operation: nothing is returned.
Escaped(op) == [op |-> op, faulted |-> TRUE, escaped |-> TRUE, value |-> None]

\* A (success, message) pair.
Status(success, message) == [success |-> success, message |-> message]

\* ---------------------------------------------------- S3Manager operations

\* `if not self.connected: return ...` and the start of the try block:
\* the call is recorded with its arguments and the bucket as it is now.
Begin(a) ==
    /\ pc = "idle"
    /\ args' = a
    /\ pre' = store
    /\ UNCHANGED connected

\* full_prefix of list_objects and full_path of create_folder.
FullPrefix(path) == IF path # <<>> THEN format_path(path) ELSE app_prefix \o Slash

\* The folder entries list_objects builds from CommonPrefixes.
FolderEntries(common) ==
    [i \in 1..Len(common) |->
        [name |-> LastSegment(RStrip(common[i])),
         path |-> common[i],
         type |-> "folder"]]

\* The file entries list_objects builds from Contents.
FileEntries(st, contents, full_prefix) ==
    LET Shown(key) == key # full_prefix /\ LastSegment(key) # <<>>
        shown == SelectSeq(contents, Shown)
    IN  [i \in 1..Len(shown) |->
            [name |-> LastSegment(shown[i]),
             path |-> shown[i],
             type |-> "file",
             size_bytes |-> Len(st[shown[i]])]]

\* The except block of list_objects.
list_objects_except == Returned("list_objects", TRUE, [folders |-> <<>>, files |-> <<>>])

\* What list_objects returns when the listing request does not raise.
ListObjectsValue(st, prefix) ==
    LET full_prefix == FullPrefix(prefix)
        response == ListV2Delimited(st, full_prefix)
    IN  [folders |-> FolderEntries(response.CommonPrefixes),
         files |-> FileEntries(st, response.Contents, full_prefix)]

\* S3Manager.list_objects
list_objects(prefix, fault) ==
    /\ Begin([op |-> "list_objects", prefix |-> prefix])
    /\ pc' = "done"
    /\ UNCHANGED rn
    /\ UNCHANGED store
    /\ IF ~connected
       THEN /\ calls' = <<>>
            /\ ret' = Returned("list_objects", FALSE, [folders |-> <<>>, files |-> <<>>])
       ELSE /\ calls' = <<Call("list_objects_v2", FullPrefix(prefix))>>
            /\ ret' = IF fault THEN list_objects_except
                      ELSE Returned("list_objects", FALSE, ListObjectsValue(store, prefix))

\* An upload that leaves the path unformatted.
UploadKeyUnformatted(path, name) == path \o name

\* The key upload_file writes.
UploadKey(path, name) == format_path(path) \o name

\* The except block of upload_file.
upload_file_except == Returned("upload_file", TRUE, Status(FALSE, "Upload failed"))

\* S3Manager.upload_file
upload_file(name, body, path, fault) ==
    /\ Begin([op |-> "upload_file", name |-> name, body |-> body, path |-> path])
    /\ pc' = "done"
    /\ UNCHANGED rn
    /\ IF ~connected
       THEN /\ calls' = <<>>
            /\ ret' = Returned("upload_file", FALSE, Status(FALSE, "Not connected to S3"))
            /\ UNCHANGED store
       ELSE LET file_key == UploadKey(path, name)
            IN  /\ calls' = <<Call("upload_fileobj", file_key)>>
                /\ IF fault
                   THEN ret' = upload_file_except /\ UNCHANGED store
                   ELSE /\ store' = Put(store, file_key, body)
                        /\ ret' = Returned("upload_file", FALSE,
                                       Status(TRUE, "uploaded successfully"))

\* The except block of download_file: the message names the exception.
download_file_except(e) ==
    Returned("download_file", TRUE,
             [content |-> None, error |-> Some(<<"Download failed", e>>)])

\* S3Manager.download_file; get_object raises for a key the bucket lacks.
download_file(file_path, fault) ==
    /\ pc = "idle" \/ (pc = "done" /\ ret.op = "upload_file")
    /\ args' = [op |-> "download_file", file_path |-> file_path,
                after |-> IF ret.op = "upload_file"
                          THEN [call |-> args, returned |-> ret]
                          ELSE [call |-> NoArgs, returned |-> NoRet]]
    /\ pre' = store
    /\ pc' = "done"
    /\ UNCHANGED <<store, connected, rn>>
    /\ IF ~connected
       THEN /\ calls' = <<>>
            /\ ret' = Returned("download_file", FALSE,
                           [content |-> None, error |-> Some("Not connected to S3")])
       ELSE /\ calls' = <<Call("get_object", file_path)>>
            /\ ret' = IF fault THEN download_file_except("ServiceFault")
                      ELSE IF file_path \notin DOMAIN store
                      THEN download_file_except("NoSuchKey")
                      ELSE Returned("download_file", FALSE,
                               [content |-> Some(store[file_path]), error |-> None])

\* A delete that takes every path for a folder.
EveryPathIsFolder(object_path) == TRUE

\* `if object_path.endswith('/')`: the path names a folder.
IsFolderPath(object_path) == EndsWith(object_path, Slash)

\* An except block that reports the deletion as done.
delete_object_reports_success ==
    Returned("delete_object", TRUE, Status(TRUE, "Folder deleted successfully"))

\* The except block of delete_object.
delete_object_except == Returned("delete_object", TRUE, Status(FALSE, "Delete failed"))

\* S3Manager.delete_object.  fault is the number of the object-store call
\* that raises (0: none); a delete_objects call that raises has removed the
\* first `applied` of the keys it was given.
delete_object(object_path, fault, applied) ==
    /\ Begin([op |-> "delete_object", object_path |-> object_path])
    /\ pc' = "done"
    /\ UNCHANGED rn
    /\ IF ~connected
       THEN /\ calls' = <<>>
            /\ ret' = Returned("delete_object", FALSE, Status(FALSE, "Not connected to S3"))
            /\ UNCHANGED store
            /\ fault = 0 /\ applied = 0
       ELSE IF IsFolderPath(object_path)
       THEN LET objects == ListV2(store, object_path, <<>>)
                delete_objects == objects.Contents
            IN  IF fault = 1
                THEN /\ calls' = <<Call("list_objects_v2", object_path)>>
                     /\ ret' = delete_object_except
                     /\ applied = 0
                     /\ UNCHANGED store
                ELSE IF delete_objects = <<>>
                THEN /\ calls' = <<Call("list_objects_v2", object_path)>>
                     /\ ret' = Returned("delete_object", FALSE,
                                    Status(TRUE, "Folder deleted successfully"))
                     /\ fault = 0 /\ applied = 0
                     /\ UNCHANGED store
                ELSE /\ calls' = <<Call("list_objects_v2", object_path),
                                   Call("delete_objects", object_path)>>
                     /\ IF fault = 2
                        THEN /\ applied < Len(delete_objects)
                             /\ store' = Remove(store, Range(Take(delete_objects, applied)))
                             /\ ret' = delete_object_except
                        ELSE /\ fault = 0 /\ applied = 0
                             /\ store' = Remove(store, Range(delete_objects))
                             /\ ret' = Returned("delete_object", FALSE,
                                            Status(TRUE, "Folder deleted successfully"))
       ELSE /\ calls' = <<Call("delete_object", object_path)>>
            /\ applied = 0
            /\ IF fault = 1
               THEN ret' = delete_object_except /\ UNCHANGED store
               ELSE /\ fault = 0
                    /\ store' = Remove(store, {object_path})
                    /\ ret' = Returned("delete_object", FALSE,
                                   Status(TRUE, "File deleted successfully"))

\* The key create_folder writes.
FolderKey(folder_name, parent_path) == FullPrefix(parent_path) \o folder_name \o Slash

\* The except block of create_folder.
create_folder_except ==
    Returned("create_folder", TRUE, Status(FALSE, "Create folder failed"))

\* S3Manager.create_folder
create_folder(folder_name, parent_path, fault) ==
    /\ Begin([op |-> "create_folder", folder_name |-> folder_name,
              parent_path |-> parent_path])
    /\ pc' = "done"
    /\ UNCHANGED rn
    /\ IF ~connected
       THEN /\ calls' = <<>>
            /\ ret' = Returned("create_folder", FALSE, Status(FALSE, "Not connected to S3"))
            /\ UNCHANGED store
       ELSE LET folder_key == FolderKey(folder_name, parent_path)
            IN  /\ calls' = <<Call("put_object", folder_key)>>
                /\ IF fault
                   THEN ret' = create_folder_except /\ UNCHANGED store
                   ELSE /\ store' = Put(store, folder_key, <<>>)
                        /\ ret' = Returned("create_folder", FALSE,
                                       Status(TRUE, "created successfully"))

\* -------------------------------------------- S3AdvancedManager operations

\* A rename whose exception handler lets the exception through.
rename_object_reraises == Escaped("rename_object")

\* The except block of rename_object.
rename_object_except == Returned("rename_object", TRUE, Status(FALSE, "Rename failed"))

\* new_path of rename_object: the sibling of old_path named new_name.
NewPath(old_path, new_name) ==
    LET parent_path == JoinAllButLast(RStrip(old_path))
        new_path == IF parent_path # <<>> THEN parent_path \o Slash \o new_name
                    ELSE new_name
    IN  IF EndsWith(old_path, Slash) THEN new_path \o Slash ELSE new_path

\* A new key that keeps only the name of the old one.
NewKeyFlat(old_key) == rn.new_path \o LastSegment(old_key)

\* new_key of rename_object for old_key.
NewKey(old_key) ==
    IF rn.is_folder THEN ReplaceFirst(old_key, rn.old_path, rn.new_path)
    ELSE rn.new_path

\* copy_object raises for a source the bucket lacks, and S3 refuses to copy
\* an object onto itself when nothing but the key is given.
CopyRaises(st, src, dst) == src \notin DOMAIN st \/ src = dst

\* rename_object is called: is_folder, parent_path and new_path are computed.
\* A file is one copy and one delete; a folder starts its paginator.
RenameBegin(old_path, new_name) ==
    /\ Begin([op |-> "rename_object", old_path |-> old_path, new_name |-> new_name])
    /\ connected
    /\ old_path # <<>>
    /\ rn' = [old_path |-> old_path,
              new_path |-> NewPath(old_path, new_name),
              is_folder |-> EndsWith(old_path, Slash),
              page |-> IF EndsWith(old_path, Slash) THEN <<>> ELSE <<old_path>>,
              after |-> <<>>,
              truncated |-> FALSE]
    /\ pc' = IF EndsWith(old_path, Slash) THEN "rename_list" ELSE "rename_copy"
    /\ calls' = <<>>
    /\ UNCHANGED <<ret, store>>

\* rename_object returns.
RenameReturn(r) ==
    /\ pc' = "done"
    /\ ret' = r
    /\ rn' = NoRename

RenameSuccess == Returned("rename_object", FALSE, Status(TRUE, "Successfully renamed"))

\* `for page in pages`: the paginator fetches the next page of keys under
\* old_path.
RenameList(fault) ==
    /\ pc = "rename_list"
    /\ calls' = Append(calls, Call("list_objects_v2", rn.old_path))
    /\ UNCHANGED <<args, pre, store, connected, ui>>
    /\ IF fault THEN RenameReturn(rename_object_except)
       ELSE LET page == ListV2(store, rn.old_path, rn.after)
            IN  IF page.Contents = <<>>
                THEN RenameReturn(RenameSuccess)
                ELSE /\ rn' = [rn EXCEPT !.page = page.Contents,
                                         !.after = page.Contents[Len(page.Contents)],
                                         !.truncated = page.IsTruncated]
                     /\ pc' = "rename_copy"
                     /\ UNCHANGED ret

\* copy_object(CopySource=old_key, Key=new_key)
RenameCopy(fault) ==
    /\ pc = "rename_copy"
    /\ LET old_key == Head(rn.page)
           new_key == NewKey(old_key)
       IN  /\ Len(new_key) <= MaxKeyLen
           /\ calls' = calls \o <<Call("copy_object:CopySource", old_key),
                                  Call("copy_object:Key", new_key)>>
           /\ IF fault \/ CopyRaises(store, old_key, new_key)
              THEN RenameReturn(rename_object_except) /\ UNCHANGED store
              ELSE /\ store' = Copy(store, old_key, new_key)
                   /\ pc' = "rename_delete"
                   /\ UNCHANGED <<ret, rn>>
    /\ UNCHANGED <<args, pre, connected, ui>>

\* A rename that copies each object and leaves the old one in place.
RenameDeleteSkipped(fault) ==
    /\ pc = "rename_delete"
    /\ UNCHANGED <<args, pre, connected, store, calls, ui>>
    /\ IF Tail(rn.page) # <<>>
       THEN /\ rn' = [rn EXCEPT !.page = Tail(rn.page)]
            /\ pc' = "rename_copy"
            /\ UNCHANGED ret
       ELSE IF rn.is_folder /\ rn.truncated
       THEN /\ rn' = [rn EXCEPT !.page = <<>>]
            /\ pc' = "rename_list"
            /\ UNCHANGED ret
       ELSE RenameReturn(RenameSuccess)

\* delete_object(Key=old_key), and the end of both loops.
RenameDelete(fault) ==
    /\ pc = "rename_delete"
    /\ calls' = Append(calls, Call("delete_object", Head(rn.page)))
    /\ UNCHANGED <<args, pre, connected, ui>>
    /\ IF fault THEN RenameReturn(rename_object_except) /\ UNCHANGED store
       ELSE /\ store' = Remove(store, {Head(rn.page)})
            /\ IF Tail(rn.page) # <<>>
               THEN /\ rn' = [rn EXCEPT !.page = Tail(rn.page)]
                    /\ pc' = "rename_copy"
                    /\ UNCHANGED ret
               ELSE IF rn.is_folder /\ rn.truncated
               THEN /\ rn' = [rn EXCEPT !.page = <<>>]
                    /\ pc' = "rename_list"
                    /\ UNCHANGED ret
               ELSE RenameReturn(RenameSuccess)

\* A paginator that stops after its first page.
FirstPageOnly(st, prefix, after) == <<ListV2(st, prefix, after).Contents>>

\* The pages a paginator over the keys under prefix yields, the bucket
\* not changing meanwhile.
RECURSIVE Pages(_, _, _)
Pages(st, prefix, after) ==
    LET page == ListV2(st, prefix, after)
    IN  <<page.Contents>> \o
        (IF page.IsTruncated
         THEN Pages(st, prefix, page.Contents[Len(page.Contents)])
         ELSE <<>>)

\* The keys of all the pages, in order.
RECURSIVE Flatten(_)
Flatten(pages) == IF pages = <<>> THEN <<>> ELSE Head(pages) \o Flatten(Tail(pages))

\* The list_objects_v2 calls of a paginator that reads n pages of prefix.
PageCalls(prefix, n) == [i \in 1..n |-> Call("list_objects_v2", prefix)]

\* An advanced operation that runs in one step is called; the advanced
\* manager exists only when the connection was made.
BeginAdvanced(a) ==
    /\ Begin(a)
    /\ connected
    /\ pc' = "done"
    /\ UNCHANGED <<store, rn>>

\* The kinds of preview the extension of file_path selects.
PreviewKinds == {"text", "image", "svg", "csv", "excel", "pdf", "unknown"}

\* A size check that also refuses a file of exactly max_size.
TooLargeOrEqual(file_size, max_size) == file_size >= max_size

\* `if file_size > max_size`
TooLarge(file_size, max_size) == file_size > max_size

\* The except block of get_file_preview.
get_file_preview_except ==
    Returned("get_file_preview", TRUE, [type |-> "error", message |-> "Preview failed"])

\* S3AdvancedManager.get_file_preview.  kind stands for the extension of
\* file_path and decodes for whether the body decodes as that kind; fault
\* is the number of the object-store call that raises (0: none).
get_file_preview(file_path, max_size, kind, decodes, fault) ==
    /\ BeginAdvanced([op |-> "get_file_preview", file_path |-> file_path,
                      max_size |-> max_size])
    /\ IF fault = 1 \/ file_path \notin DOMAIN store
       THEN /\ calls' = <<Call("head_object", file_path)>>
            /\ ret' = get_file_preview_except
            /\ fault \in {0, 1} /\ kind = "unknown" /\ decodes
       ELSE IF TooLarge(Len(store[file_path]), max_size)
       THEN /\ calls' = <<Call("head_object", file_path)>>
            /\ ret' = Returned("get_file_preview", FALSE,
                           [type |-> "error", message |-> "File too large for preview"])
            /\ fault = 0 /\ kind = "unknown" /\ decodes
       ELSE /\ calls' = <<Call("head_object", file_path), Call("get_object", file_path)>>
            /\ IF fault = 2
               THEN ret' = get_file_preview_except /\ kind = "unknown" /\ decodes
               ELSE ret' = Returned("get_file_preview", FALSE,
                               IF kind \in {"pdf", "unknown"}
                               THEN [type |-> kind, size |-> Len(store[file_path])]
                               ELSE IF ~decodes
                               THEN [type |-> "error", message |-> "Unable to decode"]
                               ELSE [type |-> kind, content |-> store[file_path]])

\* S3AdvancedManager.generate_presigned_url: the URL is signed locally.
generate_presigned_url(file_path, fault) ==
    /\ BeginAdvanced([op |-> "generate_presigned_url", file_path |-> file_path])
    /\ calls' = <<Call("generate_presigned_url", file_path)>>
    /\ ret' = IF fault THEN Returned("generate_presigned_url", TRUE, None)
              ELSE Returned("generate_presigned_url", FALSE, Some([url_for |-> file_path]))

\* A total that counts each object as one byte.
OneByteEach(st, keys) == Len(keys)

\* The sum of the sizes of the objects at keys.
RECURSIVE TotalSize(_, _)
TotalSize(st, keys) ==
    IF keys = <<>> THEN 0 ELSE Len(st[Head(keys)]) + TotalSize(st, Tail(keys))

\* The except block of get_folder_size.
get_folder_size_except ==
    Returned("get_folder_size", TRUE,
             [total_size |-> 0, file_count |-> 0, error |-> "error"])

\* S3AdvancedManager.get_folder_size; fault is the number of the page whose
\* request raises (0: none).
get_folder_size(folder_path, fault) ==
    /\ BeginAdvanced([op |-> "get_folder_size", folder_path |-> folder_path])
    /\ LET prefix == IF ~EndsWith(folder_path, Slash) THEN folder_path \o Slash
                     ELSE folder_path
           pages == Pages(store, prefix, <<>>)
           keys == Flatten(pages)
       IN  /\ fault <= Len(pages)
           /\ IF fault > 0
              THEN /\ calls' = PageCalls(prefix, fault)
                   /\ ret' = get_folder_size_except
              ELSE /\ calls' = PageCalls(prefix, Len(pages))
                   /\ ret' = Returned("get_folder_size", FALSE,
                                  [total_size |-> TotalSize(store, keys),
                                   file_count |-> Len(keys)])

\* The result entries search_files builds from the keys it matched.
SearchEntries(keys) ==
    [i \in 1..Len(keys) |->
        [name |-> LastSegment(keys[i]),
         path |-> keys[i],
         type |-> IF EndsWith(keys[i], Slash) THEN "folder" ELSE "file"]]

\* S3AdvancedManager.search_files; fault is the number of the page whose
\* request raises (0: none).
search_files(search_term, path, fault) ==
    /\ BeginAdvanced([op |-> "search_files", search_term |-> search_term, path |-> path])
    /\ LET search_prefix == IF path # <<>> THEN _format_path(path)
                            ELSE app_prefix \o Slash
           pages == Pages(store, search_prefix, <<>>)
           search_lower == Lower(search_term)
           Matches(key) == Contains(Lower(LastSegment(key)), search_lower)
       IN  /\ fault <= Len(pages)
           /\ IF fault > 0
              THEN /\ calls' = PageCalls(search_prefix, fault)
                   /\ ret' = Returned("search_files", TRUE, <<>>)
              ELSE /\ calls' = PageCalls(search_prefix, Len(pages))
                   /\ ret' = Returned("search_files", FALSE,
                                  SearchEntries(SelectSeq(Flatten(pages), Matches)))

\* S3AdvancedManager.get_file_metadata; head_object raises for a key the
\* bucket lacks.
get_file_metadata(file_path, fault) ==
    /\ BeginAdvanced([op |-> "get_file_metadata", file_path |-> file_path])
    /\ calls' = <<Call("head_object", file_path)>>
    /\ ret' = IF fault \/ file_path \notin DOMAIN store
              THEN Returned("get_file_metadata", TRUE, [error |-> "error"])
              ELSE Returned("get_file_metadata", FALSE,
                       [size |-> Len(store[file_path])])

\* ------------------------------------- operations called on any bucket

\* The keys the bucket may hold when an operation is called: the root
\* placeholder, files and folder markers at three depths, a name in capitals,
\* a file of the same name in a sibling folder, and a key under a sibling of
\* the root whose name begins with the root's.
InitKeys ==
    { <<"r", "/">>,
      <<"r", "/", "r", "/", "a">>,
      <<"r", "/", "a">>,
      <<"r", "/", "a", "/">>,
      <<"r", "/", "a", "/", "a">>,
      <<"r", "/", "a", "/", "A">>,
      <<"r", "/", "a", "/", "a", "/", "a">>,
      <<"r", "a", "/", "a">> }

\* A key no bucket of the model holds.
MissingKey == <<"r", "/", "r", "r">>

\* The buckets an operation may find.
InitStores ==
    UNION {[ks -> Bodies] : ks \in {S \in SUBSET InitKeys : Cardinality(S) <= MaxObjects}}

\* The relative paths given to the operations: the root, a folder with and
\* without slashes around it, a nested folder, and a name that begins with
\* the text of the root prefix.
OpPaths ==
    { <<>>, <<"a">>, <<"/", "a", "/">>, <<"a", "/", "a">>, <<"r", "a">> }

\* The names of uploaded files.
FileNames == { <<"a">> }

\* The names given to create_folder.
FolderNames == { <<"a">>, <<"r">>, <<"a", "/", "a">> }

\* The new names given to rename_object: plain names, the empty name, and
\* names that hold a '/'.
NewNames == { <<"a">>, <<"r">>, <<>>, <<"a", "/", "a">>, <<"r", "/", "a">> }

\* The terms given to search_files; the page gives no empty one.
SearchTerms == { <<"a">>, <<"A">>, <<"r">>, <<>> }

\* The folder keys of the bucket: every prefix of a key that ends in '/'.
FolderKeys(st) == UNION {{SubSeq(k, 1, i) : i \in SlashPositions(k)} : k \in DOMAIN st}

\* The paths of the items a listing can show: the keys and folder keys
\* below the top level.
ItemPaths(st) ==
    {k \in DOMAIN st \cup FolderKeys(st) : JoinAllButLast(RStrip(k)) # <<>>}

OpsInit ==
    /\ pc = "idle"
    /\ args = NoArgs
    /\ ret = NoRet
    /\ store \in InitStores
    /\ pre = EmptyStore
    /\ calls = <<>>
    /\ connected = TRUE
    /\ rn = NoRename
    /\ ui = FreshPage

\* The operations, each called with any of its arguments and any fault.
CallListObjects ==
    /\ \E prefix \in OpPaths, fault \in BOOLEAN : list_objects(prefix, fault)
    /\ UNCHANGED ui

CallUploadFile ==
    /\ \E name \in FileNames, body \in Bodies, path \in OpPaths, fault \in BOOLEAN :
          upload_file(name, body, path, fault)
    /\ UNCHANGED ui

\* A download of any key, or after an upload of the key format_path(path) +
\* file.name.
CallDownloadFile ==
    /\ \E file_path \in IF pc = "done" /\ ret.op = "upload_file"
                         THEN {format_path(args.path) \o args.name}
                         ELSE DOMAIN store \cup {MissingKey},
          fault \in BOOLEAN :
          download_file(file_path, fault)
    /\ UNCHANGED ui

CallDeleteObject ==
    /\ \E object_path \in ItemPaths(store) \cup {MissingKey},
          fault \in 0..2, applied \in 0..MaxObjects :
          delete_object(object_path, fault, applied)
    /\ UNCHANGED ui

CallCreateFolder ==
    /\ \E folder_name \in FolderNames, parent_path \in OpPaths, fault \in BOOLEAN :
          create_folder(folder_name, parent_path, fault)
    /\ UNCHANGED ui

CallRenameObject ==
    /\ \E old_path \in ItemPaths(store) \cup {MissingKey}, new_name \in NewNames :
          RenameBegin(old_path, new_name)
    /\ UNCHANGED ui

RenameListStep == \E fault \in BOOLEAN : RenameList(fault)

RenameCopyStep == \E fault \in BOOLEAN : RenameCopy(fault)

RenameDeleteStep == \E fault \in BOOLEAN : RenameDelete(fault)

CallGetFilePreview ==
    /\ \E file_path \in DOMAIN store \cup {MissingKey}, max_size \in 0..1,
          kind \in PreviewKinds, decodes \in BOOLEAN, fault \in 0..2 :
          get_file_preview(file_path, max_size, kind, decodes, fault)
    /\ UNCHANGED ui

CallGeneratePresignedUrl ==
    /\ \E file_path \in DOMAIN store \cup {MissingKey}, fault \in BOOLEAN :
          generate_presigned_url(file_path, fault)
    /\ UNCHANGED ui

CallGetFolderSize ==
    /\ \E folder_path \in FolderKeys(store) \cup {RStrip(k) : k \in FolderKeys(store)},
          fault \in 0..MaxObjects :
          get_folder_size(folder_path, fault)
    /\ UNCHANGED ui

CallSearchFiles ==
    /\ \E search_term \in SearchTerms, path \in OpPaths, fault \in 0..MaxObjects :
          search_files(search_term, path, fault)
    /\ UNCHANGED ui

CallGetFileMetadata ==
    /\ \E file_path \in DOMAIN store \cup {MissingKey}, fault \in BOOLEAN :
          get_file_metadata(file_path, fault)
    /\ UNCHANGED ui

OpsNext ==
    \/ CallListObjects
    \/ CallUploadFile
    \/ CallDownloadFile
    \/ CallDeleteObject
    \/ CallCreateFolder
    \/ CallRenameObject
    \/ RenameListStep
    \/ RenameCopyStep
    \/ RenameDeleteStep
    \/ CallGetFilePreview
    \/ CallGeneratePresignedUrl
    \/ CallGetFolderSize
    \/ CallSearchFiles
    \/ CallGetFileMetadata

Spec == OpsInit /\ [][OpsNext]_vars

\* ------------------------------------- the manager, from its construction

\* A connection that is taken for made although the check raised.
S3Manager_init_connects == connected' = TRUE

\* The except block of S3Manager.__init__: no connection, no client and no
\* advanced manager.
S3Manager_init_except == connected' = FALSE

\* S3Manager.__init__: the client is made and head_bucket tests the
\* connection; fault: the request (or the making of the client) raises.
S3Manager_init(fault) ==
    /\ pc = "new"
    /\ pc' = "idle"
    /\ args' = [op |-> "__init__"]
    /\ pre' = store
    /\ calls' = <<Call("head_bucket", <<>>)>>
    /\ ret' = Returned("__init__", fault, None)
    /\ IF fault THEN S3Manager_init_except ELSE connected' = TRUE
    /\ UNCHANGED <<store, rn, ui>>

\* The names of the advanced operations.
AdvancedOps ==
    {"rename_object", "get_file_preview", "generate_presigned_url",
     "get_folder_size", "search_files", "get_file_metadata"}

\* s3_manager.advanced.<op>(...) when the connection was not made: advanced
\* is None, the attribute lookup raises and nothing is called.
CallAdvancedUnconnected ==
    /\ ~connected
    /\ \E op \in AdvancedOps :
          /\ Begin([op |-> op])
          /\ ret' = [op |-> op, faulted |-> FALSE, escaped |-> TRUE, value |-> None]
    /\ pc' = "done"
    /\ calls' = <<>>
    /\ UNCHANGED <<store, rn, ui>>

Construct ==
    \E fault \in BOOLEAN : S3Manager_init(fault)

\* The manager is about to be constructed over any bucket.
ConnectInit ==
    /\ pc = "new"
    /\ args = NoArgs
    /\ ret = NoRet
    /\ store \in InitStores
    /\ pre = EmptyStore
    /\ calls = <<>>
    /\ connected = FALSE
    /\ rn = NoRename
    /\ ui = FreshPage

ConnectNext ==
    \/ Construct
    \/ CallAdvancedUnconnected
    \/ OpsNext

SpecConnect == ConnectInit /\ [][ConnectNext]_vars

\* C11: when the connectivity check of the construction fails, connected is
\* False, and from then on connected stays False, no operation issues an
\* object-store call and the bucket is unchanged.
C11_UnconnectedManagerCallsNothing ==
    [][/\ pc = "new" /\ ret'.faulted => ~connected'
       /\ pc # "new" /\ ~connected =>
             /\ ~connected'
             /\ calls' = <<>>
             /\ store' = store]_vars

\* An operation was called on a bucket that holds objects, by a manager
\* whose connectivity check had failed.
C11_Witness ==
    /\ pc = "done"
    /\ ~connected
    /\ ret.op \in {"delete_object", "upload_file", "search_files"}
    /\ store # EmptyStore
    /\ calls = <<>>

\* ------------------------------------- a rename and another actor's write

\* The bytes the other actor writes: no object of the bucket holds them
\* before.
OtherBody == <<2>>

\* The name of a key the other actor adds to a folder.
OtherName == <<"A">>

\* The put of the other actor in the log of the object store.
OtherPutCalls == {i \in 1..Len(calls) : calls[i].api = "put_object (another actor)"}

\* Another actor puts an object at a key under the old path of the rename
\* that is running or has just returned: at the key of the renamed file, at
\* the key of a child of the renamed folder, or at a key new to the folder.
OtherPut ==
    /\ pc \in {"rename_list", "rename_copy", "rename_delete", "done"}
    /\ OtherPutCalls = {}
    /\ \E key \in IF EndsWith(args.old_path, Slash)
                  THEN KeysUnder(pre, args.old_path) \cup {args.old_path \o OtherName}
                  ELSE {args.old_path} :
          /\ store' = Put(store, key, OtherBody)
          /\ calls' = Append(calls, Call("put_object (another actor)", key))
    /\ UNCHANGED <<pc, args, ret, pre, connected, rn, ui>>

RaceNext ==
    \/ CallRenameObject
    \/ RenameListStep
    \/ RenameCopyStep
    \/ RenameDeleteStep
    \/ OtherPut

SpecRace == OpsInit /\ [][RaceNext]_vars

\* ------------------------------------------------------ the page, in use

\* The most keys the bucket holds when the user adds one more, the longest
\* key the user adds, and the most dialogs the user keeps open together.
MaxSessionObjects == 2
MaxSessionKeyLen == 4
MaxOpenDialogs == 1

\* max_size of get_file_preview when the page calls it: 5 MB.
DefaultMaxSize == 5 * 1024 * 1024

\* What the user types: paths in Quick Navigation, folder names, new names
\* and search terms.  <<"r", "a">> begins with the text of the root prefix
\* and <<"r">> equals it.
NavPaths == { <<"a">>, <<"r", "a">> }
SessionFolderNames == { <<"a">>, <<"r">>, <<"r", "a">> }
SessionNewNames == { <<"r", "a">> }
SessionSearchTerms == { <<"a">> }
SessionBodies == { <<1>> }

\* The current_path a folder button sets for the folder at path.
FolderNavPath(path) ==
    LET folder_path == RStrip(path)
    IN  IF StartsWith(folder_path, app_prefix)
        THEN LStrip(SubSeq(folder_path, Len(app_prefix) + 1, Len(folder_path)))
        ELSE folder_path

\* The partial paths the breadcrumb offers a button for.
BreadcrumbPaths(current_path) ==
    LET s == Strip(current_path)
        ends == {i - 1 : i \in SlashPositions(s)} \cup {Len(s)}
        Part(e) == LastSegment(SubSeq(s, 1, e))
    IN  {SubSeq(s, 1, e) : e \in {x \in ends : Part(x) # <<>> /\ Part(x) # app_prefix}}

\* all_items as the listing of line 555 builds it now.
ListedNow ==
    LET listing == ListObjectsValue(store, ui.current_path)
    IN  listing.folders \o listing.files

\* The page waits for the user; the table shows what the bucket holds, so
\* the run a click starts lists the same rows before it reaches the button.
PageIdle == pc = "idle" /\ ui.to_delete = <<>>
RowsShown == PageIdle /\ ui.all_items = ListedNow

\* The item of the only selected row.
OneSelected == Cardinality(ui.selected) = 1
SelectedItem == ui.all_items[CHOOSE i \in ui.selected : TRUE]

\* The number of dialogs open.
OpenDialogs ==
    Cardinality({d \in {"renaming_item", "preview_item", "share_item", "info_item"} :
                    ui[d] # None})

\* A handler that calls no operation and ends in st.rerun(), or a widget
\* whose change reruns the script.
Rerun(name) ==
    /\ args' = [op |-> name]
    /\ ret' = NoRet
    /\ pre' = store
    /\ calls' = <<>>
    /\ pc' = "rerun"
    /\ UNCHANGED <<store, connected, rn>>

\* A handler that calls no operation; the script runs on to the dialogs.
RunOn(name) ==
    /\ args' = [op |-> name]
    /\ ret' = NoRet
    /\ pre' = store
    /\ calls' = <<>>
    /\ pc' = "done"
    /\ UNCHANGED <<store, connected, rn>>

\* The key fits the bucket of the session.
Fits(key) ==
    /\ Len(key) <= MaxSessionKeyLen
    /\ key \in DOMAIN store \/ Cardinality(DOMAIN store) < MaxSessionObjects

\* Quick Navigation: "Go".
QuickNavigate ==
    /\ PageIdle
    /\ \E nav_path \in NavPaths : ui' = [ui EXCEPT !.current_path = nav_path]
    /\ Rerun("quick_nav")

\* Breadcrumb: "Home".
ClickHome ==
    /\ PageIdle
    /\ ui.current_path # <<>>
    /\ ui' = [ui EXCEPT !.current_path = <<>>]
    /\ Rerun("home")

\* Breadcrumb: the button of one part of the path.
ClickBreadcrumb ==
    /\ PageIdle
    /\ ui.current_path # <<>>
    /\ \E partial_path \in BreadcrumbPaths(ui.current_path) :
          ui' = [ui EXCEPT !.current_path = partial_path]
    /\ Rerun("path")

\* "Refresh".
ClickRefresh ==
    /\ PageIdle
    /\ UNCHANGED ui
    /\ Rerun("refresh_list")

\* A folder card.
ClickFolderCard ==
    /\ RowsShown
    /\ \E idx \in 1..Len(ui.all_items) :
          /\ ui.all_items[idx].type = "folder"
          /\ ui' = [ui EXCEPT !.current_path = FolderNavPath(ui.all_items[idx].path)]
    /\ Rerun("folder_nav")

\* "Open folder" for the selected folder.
ClickOpenFolder ==
    /\ RowsShown
    /\ OneSelected
    /\ SelectedItem.type = "folder"
    /\ ui' = [ui EXCEPT !.current_path = FolderNavPath(SelectedItem.path)]
    /\ Rerun("open_folder_main")

\* The rows selected in the table change (on_select="rerun").
SelectRows ==
    /\ RowsShown
    /\ \E rows \in SUBSET (1..Len(ui.all_items)) :
          /\ rows # ui.selected
          /\ ui' = [ui EXCEPT !.selected = rows]
    /\ Rerun("select")

\* Sidebar: "Create".
ClickCreateFolder ==
    /\ PageIdle
    /\ \E new_folder \in SessionFolderNames, fault \in BOOLEAN :
          /\ new_folder # <<>>
          /\ Fits(FolderKey(new_folder, ui.current_path))
          /\ create_folder(new_folder, ui.current_path, fault)
    /\ UNCHANGED ui

\* "Upload" in the sidebar, in the quick upload area or in the empty
\* folder, with one file chosen.
ClickUpload ==
    /\ PageIdle
    /\ \E name \in FileNames, body \in SessionBodies, fault \in BOOLEAN :
          /\ Fits(UploadKey(ui.current_path, name))
          /\ upload_file(name, body, ui.current_path, fault)
    /\ UNCHANGED ui

\* Sidebar: "Search" with a term typed.
ClickSearch ==
    /\ PageIdle
    /\ \E search_term \in SessionSearchTerms, fault \in 0..1 :
          /\ search_term # <<>>
          /\ search_files(search_term, ui.current_path, fault)
    /\ UNCHANGED ui

\* The selected rows in the order of the table.
RowsInOrder(rows) ==
    [k \in 1..Cardinality(rows) |->
        CHOOSE i \in rows : Cardinality({j \in rows : j <= i}) = k]

\* The paths of the selected rows in the order of the table.
SelectedPaths ==
    [k \in 1..Cardinality(ui.selected) |->
        ui.all_items[RowsInOrder(ui.selected)[k]].path]

\* "Delete Selected": the first click asks for a second one, the second
\* starts the loop over the selected rows.
ClickDeleteSelected ==
    /\ RowsShown
    /\ ui.selected # {}
    /\ IF ui.confirm_delete
       THEN /\ ui' = [ui EXCEPT !.to_delete = SelectedPaths]
            /\ UNCHANGED <<pc, args, ret, pre, calls, store, connected, rn>>
       ELSE /\ ui' = [ui EXCEPT !.confirm_delete = TRUE, !.warned = SelectedPaths]
            /\ RunOn("delete_selected")

\* `for idx in selected_indices`: delete_object for the next selected item;
\* after the last one confirm_delete is cleared.
DeleteSelectedItem ==
    /\ ui.to_delete # <<>>
    /\ \E fault \in 0..2, applied \in 0..MaxSessionObjects :
          delete_object(Head(ui.to_delete), fault, applied)
    /\ ui' = [ui EXCEPT !.to_delete = Tail(@),
                        !.confirm_delete = IF Tail(ui.to_delete) = <<>> THEN FALSE ELSE @,
                        !.warned = IF Tail(ui.to_delete) = <<>> THEN <<>> ELSE @]

\* The loop goes on to the next selected item.
DeleteSelectedLoop ==
    /\ pc = "done"
    /\ ui.to_delete # <<>>
    /\ pc' = "idle"
    /\ UNCHANGED <<args, ret, pre, calls, store, connected, rn, ui>>

\* "Download" for the selected file.
ClickDownload ==
    /\ RowsShown
    /\ OneSelected
    /\ SelectedItem.type = "file"
    /\ \E fault \in BOOLEAN : download_file(SelectedItem.path, fault)
    /\ UNCHANGED ui

\* "Rename", "Preview", "Share" and "Info" for the selected item open the
\* dialog of that item.
ClickRename ==
    /\ RowsShown
    /\ OneSelected
    /\ ui.renaming_item # None \/ OpenDialogs < MaxOpenDialogs
    /\ ui' = [ui EXCEPT !.renaming_item = Some(SelectedItem)]
    /\ RunOn("rename")

ClickPreview ==
    /\ RowsShown
    /\ OneSelected
    /\ SelectedItem.type = "file"
    /\ ui.preview_item # None \/ OpenDialogs < MaxOpenDialogs
    /\ ui' = [ui EXCEPT !.preview_item = Some(SelectedItem)]
    /\ RunOn("preview")

ClickShare ==
    /\ RowsShown
    /\ OneSelected
    /\ SelectedItem.type = "file"
    /\ ui.share_item # None \/ OpenDialogs < MaxOpenDialogs
    /\ ui' = [ui EXCEPT !.share_item = Some(SelectedItem)]
    /\ RunOn("share")

ClickInfo ==
    /\ RowsShown
    /\ OneSelected
    /\ ui.info_item # None \/ OpenDialogs < MaxOpenDialogs
    /\ ui' = [ui EXCEPT !.info_item = Some(SelectedItem)]
    /\ RunOn("info")

\* Rename dialog: "Rename" with a new name typed.
ConfirmRename ==
    /\ PageIdle
    /\ ui.renaming_item # None
    /\ \E new_name \in SessionNewNames :
          /\ new_name # <<>> /\ new_name # ui.renaming_item[1].name
          /\ RenameBegin(ui.renaming_item[1].path, new_name)
    /\ UNCHANGED ui

\* Rename dialog: "Cancel".
CancelRename ==
    /\ PageIdle
    /\ ui.renaming_item # None
    /\ ui' = [ui EXCEPT !.renaming_item = None]
    /\ Rerun("cancel_rename")

\* Preview dialog: "Close Preview".
ClosePreview ==
    /\ PageIdle
    /\ ui.preview_item # None
    /\ ui' = [ui EXCEPT !.preview_item = None]
    /\ Rerun("close_preview")

\* Share dialog: "Generate Link".
GenerateLink ==
    /\ PageIdle
    /\ ui.share_item # None
    /\ \E fault \in BOOLEAN : generate_presigned_url(ui.share_item[1].path, fault)
    /\ UNCHANGED ui

\* Share dialog: "Close".
CloseShare ==
    /\ PageIdle
    /\ ui.share_item # None
    /\ ui' = [ui EXCEPT !.share_item = None]
    /\ Rerun("close_share")

\* Info dialog: "Close".
CloseInfo ==
    /\ PageIdle
    /\ ui.info_item # None
    /\ ui' = [ui EXCEPT !.info_item = None]
    /\ Rerun("close_info")

\* The object-store calls of get_file_preview(item['path']) in the preview
\* dialog: the head request, then the body unless the head request raised
\* or reported more than max_size.
PreviewCalls(st, file_path, max_size, fault) ==
    IF fault \/ file_path \notin DOMAIN st
    THEN <<Call("head_object", file_path)>>
    ELSE IF TooLarge(Len(st[file_path]), max_size)
    THEN <<Call("head_object", file_path)>>
    ELSE <<Call("head_object", file_path), Call("get_object", file_path)>>

\* The object-store calls of the info dialog: get_folder_size reads pages
\* of the folder until one raises, get_file_metadata makes a head request.
InfoCalls(st, item, pages) ==
    IF item.type = "folder"
    THEN LET prefix == IF ~EndsWith(item.path, Slash) THEN item.path \o Slash
                       ELSE item.path
         IN  PageCalls(prefix, pages)
    ELSE <<Call("head_object", item.path)>>

\* The number of pages get_folder_size can read for the item of the info
\* dialog (1 where the dialog reads none).
InfoPages(st, item) ==
    IF item.type = "folder" THEN Len(Pages(st, item.path, <<>>)) ELSE 1

\* The rest of a script run, after the handler of the click: st.rerun()
\* starts the script again, which lists current_path (line 555) and shows
\* the open dialogs; without st.rerun() the run goes on from the handler, a
\* sidebar handler to the listing and the dialogs, a handler of the table to
\* the dialogs, a handler of a dialog to the dialogs below it.
Render(list_fault, preview_fault, info_pages) ==
    /\ pc \in {"rerun", "done"}
    /\ ui.to_delete = <<>>
    /\ LET renamed == ret.op = "rename_object" /\ ret.value.success
           relists == \/ pc = "rerun"
                      \/ ret.op \in {"create_folder", "upload_file", "search_files",
                                     "delete_object"}
                      \/ renamed
           in_dialog == ~relists /\ ret.op \in {"rename_object", "generate_presigned_url"}
           listing == IF list_fault THEN list_objects_except.value
                      ELSE ListObjectsValue(IF relists THEN store ELSE pre, ui.current_path)
           all_items == IF relists \/ in_dialog THEN listing.folders \o listing.files
                        ELSE ui.all_items
           shows_preview == /\ ui.preview_item # None
                            /\ relists \/ ret.op # "generate_presigned_url"
           shows_info == ui.info_item # None
       IN  /\ list_fault => relists \/ in_dialog
           /\ preview_fault => shows_preview
           /\ info_pages = 1 \/ (shows_info /\ info_pages <= InfoPages(store, ui.info_item[1]))
           /\ calls' =
                (IF relists /\ connected
                 THEN <<Call("list_objects_v2", FullPrefix(ui.current_path))>> ELSE <<>>)
                \o (IF shows_preview
                    THEN PreviewCalls(store, ui.preview_item[1].path, DefaultMaxSize,
                                      preview_fault)
                    ELSE <<>>)
                \o (IF shows_info THEN InfoCalls(store, ui.info_item[1], info_pages)
                    ELSE <<>>)
           /\ args' = IF relists THEN [op |-> "list_objects", prefix |-> ui.current_path]
                      ELSE NoArgs
           /\ ret' = IF relists THEN Returned("list_objects", list_fault, listing)
                     ELSE NoRet
           /\ ui' = [ui EXCEPT !.all_items = all_items,
                               !.selected = IF all_items = ui.all_items THEN @ ELSE {},
                               !.renaming_item = IF renamed THEN None ELSE @]
    /\ pre' = store
    /\ pc' = "idle"
    /\ UNCHANGED <<store, connected, rn>>

RenderPage ==
    \E list_fault \in BOOLEAN, preview_fault \in BOOLEAN, info_pages \in 1..MaxSessionObjects :
        Render(list_fault, preview_fault, info_pages)

\* The page is opened on an empty bucket: the first run of the script is
\* about to list the root.
SessionInit ==
    /\ pc = "rerun"
    /\ args = [op |-> "main"]
    /\ ret = NoRet
    /\ store = EmptyStore
    /\ pre = EmptyStore
    /\ calls = <<>>
    /\ connected = TRUE
    /\ rn = NoRename
    /\ ui = FreshPage

SessionNext ==
    \/ QuickNavigate
    \/ ClickHome
    \/ ClickBreadcrumb
    \/ ClickRefresh
    \/ ClickFolderCard
    \/ ClickOpenFolder
    \/ SelectRows
    \/ ClickCreateFolder
    \/ ClickUpload
    \/ ClickSearch
    \/ ClickDeleteSelected
    \/ DeleteSelectedItem
    \/ DeleteSelectedLoop
    \/ ClickDownload
    \/ ClickRename
    \/ ClickPreview
    \/ ClickShare
    \/ ClickInfo
    \/ ConfirmRename
    \/ RenameListStep
    \/ RenameCopyStep
    \/ RenameDeleteStep
    \/ CancelRename
    \/ ClosePreview
    \/ GenerateLink
    \/ CloseShare
    \/ CloseInfo
    \/ RenderPage

SpecSession == SessionInit /\ [][SessionNext]_vars

\* --------------------------------------------------- main(), run by run

\* The session state main() works on: the keys of the page, 'authenticated'
\* and whether 's3_manager' is in it.
MainSession(authenticated, s3_manager) ==
    FreshPage @@ [authenticated |-> authenticated, s3_manager |-> s3_manager]

\* auth_manager.check_session(): whether the session is logged in.
check_session == ui.authenticated

\* A main() that shows the application to everyone.
main_shows_app_always == TRUE

\* main(): show_main_app() runs when check_session() returns true,
\* show_login_page() otherwise.
main_shows_app == check_session

\* The application is on the screen: the session is authorized, the manager
\* is in the session and connected, and the script waits for the user.
MainAppShown == ui.authenticated /\ ui.s3_manager /\ connected /\ PageIdle

\* A run of main() that ends on the login page.
ShowLoginPage ==
    /\ pc = "rerun"
    /\ ~main_shows_app
    /\ pc' = "idle"
    /\ args' = [op |-> "show_login_page"]
    /\ ret' = NoRet
    /\ pre' = store
    /\ calls' = <<>>
    /\ UNCHANGED <<store, connected, rn, ui>>

\* The login form is submitted: auth_manager.authenticate() accepts the
\* credentials and auth_manager.login() opens the session, or the page
\* shows the error.
SubmitLogin ==
    /\ pc = "idle"
    /\ ~ui.authenticated
    /\ \E success \in BOOLEAN :
          /\ ui' = [ui EXCEPT !.authenticated = success]
          /\ pc' = IF success THEN "rerun" ELSE "idle"
          /\ args' = [op |-> "login", success |-> success]
    /\ ret' = NoRet
    /\ pre' = store
    /\ calls' = <<>>
    /\ UNCHANGED <<store, connected, rn>>

\* show_main_app() finds no 's3_manager' in the session and constructs it;
\* the run goes on with the connection check.
ShowMainAppInit ==
    /\ pc = "rerun"
    /\ main_shows_app
    /\ ~ui.s3_manager
    /\ \E fault \in BOOLEAN :
          /\ ret' = Returned("__init__", fault, None)
          /\ IF fault THEN S3Manager_init_except ELSE connected' = TRUE
    /\ args' = [op |-> "__init__"]
    /\ pre' = store
    /\ calls' = <<Call("head_bucket", <<>>)>>
    /\ ui' = [ui EXCEPT !.s3_manager = TRUE]
    /\ pc' = "rerun"
    /\ UNCHANGED <<store, rn>>

\* show_main_app() with a manager that is not connected: the error and the
\* troubleshooting guide, and the run ends.
ShowMainAppNotConnected ==
    /\ pc = "rerun"
    /\ main_shows_app
    /\ ui.s3_manager
    /\ ~connected
    /\ pc' = "idle"
    /\ args' = [op |-> "show_main_app"]
    /\ ret' = NoRet
    /\ pre' = store
    /\ calls' = <<>>
    /\ UNCHANGED <<store, connected, rn, ui>>

\* show_main_app() with a connected manager draws the page.
ShowMainApp ==
    /\ main_shows_app
    /\ ui.s3_manager
    /\ connected
    /\ RenderPage

\* The buttons of the page the user clicks while it is shown.
MainQuickNavigate == MainAppShown /\ QuickNavigate
MainRefresh == MainAppShown /\ ClickRefresh
MainCreateFolder == MainAppShown /\ ClickCreateFolder
MainUpload == MainAppShown /\ ClickUpload
MainSearch == MainAppShown /\ ClickSearch

\* Sidebar: "Logout".  auth_manager.logout() closes the session; whether it
\* drops the other keys of the session state as well is left open.
ClickLogout ==
    /\ MainAppShown
    /\ \E clears \in BOOLEAN :
          ui' = IF clears THEN MainSession(FALSE, FALSE)
                ELSE [ui EXCEPT !.authenticated = FALSE]
    /\ Rerun("logout")

\* The application is opened in a new session, on an empty bucket: the
\* first run of main() is about to start.
MainInit ==
    /\ pc = "rerun"
    /\ args = [op |-> "main"]
    /\ ret = NoRet
    /\ store = EmptyStore
    /\ pre = EmptyStore
    /\ calls = <<>>
    /\ connected = FALSE
    /\ rn = NoRename
    /\ ui = MainSession(FALSE, FALSE)

MainNext ==
    \/ ShowLoginPage
    \/ SubmitLogin
    \/ ShowMainAppInit
    \/ ShowMainAppNotConnected
    \/ ShowMainApp
    \/ MainQuickNavigate
    \/ MainRefresh
    \/ MainCreateFolder
    \/ MainUpload
    \/ MainSearch
    \/ ClickLogout

SpecMain == MainInit /\ [][MainNext]_vars

\* C2: in a session every key or prefix given to an object-store call
\* begins with '<app_prefix>/', and the prefix of every listing call ends
\* with '/'.
C2_EveryCallIsRooted ==
    \A i \in 1..Len(calls) :
        /\ Rooted(calls[i].key)
        /\ calls[i].api = "list_objects_v2" => EndsWith(calls[i].key, Slash)

\* --------------------------------------------- the path formatter, applied

FormatInit ==
    /\ pc = "idle"
    /\ args \in {[op |-> "format", path |-> p] : p \in StringsUpTo(MaxPathLen)}
    /\ ret = NoRet
    /\ store = EmptyStore
    /\ pre = EmptyStore
    /\ calls = <<>>
    /\ connected = TRUE
    /\ rn = NoRename
    /\ ui = FreshPage

\* format_path(p), and format_path of its result.
CallFormatPath ==
    /\ pc = "idle"
    /\ pc' = "done"
    /\ ret' = [op |-> "format_path",
               out |-> format_path(args.path),
               again |-> format_path(format_path(args.path))]
    /\ UNCHANGED <<args, store, pre, calls, connected, rn, ui>>

\* _format_path(p), and _format_path of its result.
CallAdvFormatPath ==
    /\ pc = "idle"
    /\ pc' = "done"
    /\ ret' = [op |-> "_format_path",
               out |-> _format_path(args.path),
               again |-> _format_path(_format_path(args.path))]
    /\ UNCHANGED <<args, store, pre, calls, connected, rn, ui>>

FormatNext == CallFormatPath \/ CallAdvFormatPath

SpecFormat == FormatInit /\ [][FormatNext]_vars

Formatted == pc = "done" /\ ret.op \in {"format_path", "_format_path"}

\* C1: for every input string the two formatters return a non-empty string
\* that begins with '<app_prefix>/' and ends with '/'.
C1_RootedAndTerminated ==
    Formatted => /\ ret.out # <<>>
                 /\ Rooted(ret.out)
                 /\ EndsWith(ret.out, Slash)

\* C3 as stated: the formatter is idempotent, and a path that is already
\* rooted at '<app_prefix>/' and already ends with '/' is returned unchanged.
C3_IdempotentAndFixesEveryRootedPath ==
    Formatted => /\ ret.again = ret.out
                 /\ (Rooted(args.path) /\ EndsWith(args.path, Slash)
                        => ret.out = args.path)

\* A path rooted at '<app_prefix>/' that ends with exactly one '/'.
NormalFolderPath(s) ==
    /\ Rooted(s)
    /\ EndsWith(s, Slash)
    /\ ~EndsWith(s, Slash \o Slash)

\* C3 as amended: the formatter is idempotent, and a path that is already
\* rooted at '<app_prefix>/' and ends with exactly one '/' is returned
\* unchanged.
C3_IdempotentAndFixesNormalPaths ==
    Formatted => /\ ret.again = ret.out
                 /\ (NormalFolderPath(args.path) => ret.out = args.path)

\* A rooted, singly terminated path below the root has been formatted.
C3_Witness ==
    /\ Formatted
    /\ NormalFolderPath(args.path)
    /\ Len(args.path) > Len(app_prefix) + 1
    /\ ret.out = args.path

\* ------------------------------------------------------- the size formatter

\* The most base-1024 digits of a size given to the size formatters.
MaxDigits == 6

\* 1024.0, the divisor of the size formatters.
Kilo == 1024

\* `for unit in ['B', 'KB', 'MB', 'GB', 'TB']`
Units == <<"B", "KB", "MB", "GB", "TB">>

\* A number is written in base 1024, most significant digit first, so that
\* sizes beyond 32 bits are computed exactly: whole holds the digits of the
\* integer part (<<0>> for zero, no leading zero otherwise), frac those after
\* the point.  A division by 1024.0 is exact in binary floating point for
\* the sizes below 2^53, which an int converts to without rounding.
SizeValue(digits) == [whole |-> digits, frac |-> <<>>]

\* A test that lets 1024 itself through.
AtMostKilo(v) ==
    \/ Len(v.whole) = 1
    \/ v.whole = <<1, 0>> /\ \A i \in 1..Len(v.frac) : v.frac[i] = 0

\* `if size_bytes < 1024.0`
LessThanKilo(v) == Len(v.whole) = 1

\* `size_bytes /= 1024.0`
DivideByKilo(v) ==
    [whole |-> IF Len(v.whole) = 1 THEN <<0>> ELSE SubSeq(v.whole, 1, Len(v.whole) - 1),
     frac |-> <<v.whole[Len(v.whole)]>> \o v.frac]

\* Ten times the fraction f: the digit carried into the integer part and the
\* fraction that is left.
RECURSIVE TimesTen(_)
TimesTen(f) ==
    IF f = <<>> THEN [carry |-> 0, digits |-> <<>>]
    ELSE LET rest == TimesTen(Tail(f))
             p == 10 * Head(f) + rest.carry
         IN  [carry |-> p \div Kilo, digits |-> <<p % Kilo>> \o rest.digits]

\* The integer written by the digits w, plus one.
RECURSIVE PlusOne(_)
PlusOne(w) ==
    IF w = <<>> THEN <<1>>
    ELSE IF w[Len(w)] + 1 < Kilo THEN [w EXCEPT ![Len(w)] = @ + 1]
    ELSE PlusOne(SubSeq(w, 1, Len(w) - 1)) \o <<0>>

\* f"{size_bytes:.1f} {unit}": the value rounded to one decimal, a tie going
\* to the even digit, and the unit.
OneDecimal(v, unit) ==
    LET t == TimesTen(v.frac)
        r == t.digits
        zero_after == \A i \in 2..Len(r) : r[i] = 0
        above == r # <<>> /\ (r[1] > Kilo \div 2 \/ (r[1] = Kilo \div 2 /\ ~zero_after))
        tie == r # <<>> /\ r[1] = Kilo \div 2 /\ zero_after
        tenths == IF above \/ (tie /\ t.carry % 2 = 1) THEN t.carry + 1 ELSE t.carry
    IN  IF tenths = 10 THEN [whole |-> PlusOne(v.whole), tenths |-> 0, unit |-> unit]
        ELSE [whole |-> v.whole, tenths |-> tenths, unit |-> unit]

\* The loop of the size formatters from the i-th unit on, and the return
\* after it.
RECURSIVE FormatSizeLoop(_, _)
FormatSizeLoop(v, i) ==
    IF i > Len(Units) THEN OneDecimal(v, "PB")
    ELSE IF LessThanKilo(v) THEN OneDecimal(v, Units[i])
    ELSE FormatSizeLoop(DivideByKilo(v), i + 1)

\* S3Manager.format_size
format_size(size_bytes) == FormatSizeLoop(SizeValue(size_bytes), 1)

\* S3AdvancedManager._format_size
_format_size(size_bytes) == FormatSizeLoop(SizeValue(size_bytes), 1)

\* The digits the sizes are written with: the least, the greatest, and one
\* that is a quarter of 1024.
SizeDigits == {0, 1, 256, 1023}

\* The sizes formatted: the non-negative integers below 2^53 of at most
\* MaxDigits digits.
Sizes ==
    {n \in UNION {[1..k -> SizeDigits] : k \in 1..MaxDigits} :
        /\ Len(n) > 1 => n[1] # 0
        /\ Len(n) <= 6
        /\ Len(n) = 6 => n[1] < 8}

SizeInit ==
    /\ pc = "idle"
    /\ args \in {[op |-> "size", size_bytes |-> n] : n \in Sizes}
    /\ ret = NoRet
    /\ store = EmptyStore
    /\ pre = EmptyStore
    /\ calls = <<>>
    /\ connected = TRUE
    /\ rn = NoRename
    /\ ui = FreshPage

CallFormatSize ==
    /\ pc = "idle"
    /\ pc' = "done"
    /\ ret' = [op |-> "format_size", out |-> format_size(args.size_bytes)]
    /\ UNCHANGED <<args, store, pre, calls, connected, rn, ui>>

CallAdvFormatSize ==
    /\ pc = "idle"
    /\ pc' = "done"
    /\ ret' = [op |-> "_format_size", out |-> _format_size(args.size_bytes)]
    /\ UNCHANGED <<args, store, pre, calls, connected, rn, ui>>

SizeNext == CallFormatSize \/ CallAdvFormatSize

SpecSize == SizeInit /\ [][SizeNext]_vars

\* The units in the order of the claim, and the text of a whole number of
\* units.
AllUnits == Units \o <<"PB">>
WholeUnits(w, unit) == [whole |-> <<w>>, tenths |-> 0, unit |-> unit]

\* C14: both size formatters pick the k-th unit of B, KB, MB, GB, TB, PB
\* for the smallest k with n / 1024^k < 1024 (n has at most k + 1 digits in
\* base 1024), PB when there is none; 0 is '0.0 B', 1023 '1023.0 B', 1024
\* '1.0 KB' and 1048576 '1.0 MB'.
C14_UnitOfSize ==
    pc = "done" /\ ret.op \in {"format_size", "_format_size"} =>
        LET n == args.size_bytes
            fit == {k \in 0..4 : Len(n) <= k + 1}
            k == IF fit = {} THEN 5 ELSE CHOOSE i \in fit : \A j \in fit : i <= j
        IN  /\ ret.out.unit = AllUnits[k + 1]
            /\ n = <<0>> => ret.out = WholeUnits(0, "B")
            /\ n = <<1023>> => ret.out = WholeUnits(1023, "B")
            /\ n = <<1, 0>> => ret.out = WholeUnits(1, "KB")
            /\ n = <<1, 0, 0>> => ret.out = WholeUnits(1, "MB")

\* A size of 1024^5 or more has been formatted in PB.
C14_Witness ==
    /\ pc = "done"
    /\ ret.op = "_format_size"
    /\ Len(args.size_bytes) = 6
    /\ ret.out.unit = "PB"
    /\ ret.out.tenths # 0

\* ----------------------------------------------- claims on the operations

\* The operation op has returned.
Done(op) == pc = "done" /\ ret.op = op

\* How many entries of the sequence q satisfy P.
Count(q, P(_)) == Cardinality({i \in 1..Len(q) : P(q[i])})

\* C4: list_objects(P) represents every key under the resolved prefix P
\* other than P itself exactly once: a key with a further '/' after P by
\* exactly one folder entry, a key without one by exactly one file entry,
\* and none by both.
C4_ListingRepresentsEveryKeyOnce ==
    Done("list_objects") /\ ~ret.faulted =>
        LET P == FullPrefix(args.prefix)
            folders == ret.value.folders
            files == ret.value.files
        IN  \A k \in KeysUnder(store, P) \ {P} :
                LET Covers(e) == StartsWith(k, e.path)
                    Is(e) == e.path = k
                    nested == SlashPositions(SubSeq(k, Len(P) + 1, Len(k))) # {}
                IN  IF nested
                    THEN Count(folders, Covers) = 1 /\ Count(files, Is) = 0
                    ELSE Count(files, Is) = 1 /\ Count(folders, Covers) = 0

\* C5: when delete_object(k) on a slash-terminated key k returns success,
\* no key with prefix k remains in the bucket.
C5_FolderDeleteLeavesNothing ==
    Done("delete_object") /\ EndsWith(args.object_path, Slash) /\ ret.value.success
        => KeysUnder(store, args.object_path) = {}

\* A successful rename of a folder.
FolderRenamed ==
    Done("rename_object") /\ EndsWith(args.old_path, Slash) /\ ret.value.success

\* Every object that was under the old folder key is under the new one with
\* the same suffix and body, and nothing is left under the old one.
MovedUnder(old, new) ==
    /\ \A k \in KeysUnder(pre, old) :
          LET moved == new \o SubSeq(k, Len(old) + 1, Len(k))
          IN  moved \in DOMAIN store /\ store[moved] = pre[k]
    /\ KeysUnder(store, old) = {}

\* parent(oldFolderKey) + '/' + newName + '/'
SiblingFolderKey(old, new_name) ==
    JoinAllButLast(RStrip(old)) \o Slash \o new_name \o Slash

\* The new name begins with the folder's current name followed by '/', so
\* that the renamed folder lies inside the folder being renamed.
RenamedIntoItself ==
    StartsWith(args.new_name, LastSegment(RStrip(args.old_path)) \o Slash)

\* C6 as stated: after a successful folder rename, for every new name, the
\* children are under parent/newName/ with the same content and no key with
\* the old prefix remains.
C6_FolderRenameMovesChildren ==
    FolderRenamed =>
        MovedUnder(args.old_path, SiblingFolderKey(args.old_path, args.new_name))

\* C6 as amended: the same, for every new name that does not begin with the
\* folder's current name followed by '/'.
C6_FolderRenameMovesChildrenToSibling ==
    FolderRenamed /\ ~RenamedIntoItself =>
        MovedUnder(args.old_path, SiblingFolderKey(args.old_path, args.new_name))

\* A folder that holds more keys than a page, one of them with a body, has
\* been renamed to a sibling.
C6_Witness ==
    /\ FolderRenamed
    /\ ~RenamedIntoItself
    /\ Cardinality(KeysUnder(pre, args.old_path)) > PageSize
    /\ \E k \in KeysUnder(pre, args.old_path) : pre[k] # <<>>
    /\ KeysUnder(store, SiblingFolderKey(args.old_path, args.new_name)) # {}

\* C7: delete_object(k) on a key k that does not end with '/' leaves every
\* other key with its body, adds none, and when it returns success k is
\* absent.
C7_FileDeleteRemovesExactlyTheKey ==
    Done("delete_object") /\ ~EndsWith(args.object_path, Slash) =>
        IF ret.value.success
        THEN store = Remove(pre, {args.object_path})
        ELSE store = pre

\* A file has been deleted from a bucket that holds other keys, one of them
\* beginning with the deleted key.
C7_Witness ==
    /\ Done("delete_object")
    /\ ~EndsWith(args.object_path, Slash)
    /\ ret.value.success
    /\ args.object_path \in DOMAIN pre
    /\ \E k \in DOMAIN store : StartsWith(k, args.object_path)

\* A download that followed a successful upload, of the key the upload is
\* to have written, the download request itself not failing in the service.
RoundTrip ==
    /\ Done("download_file")
    /\ args.after.call.op = "upload_file"
    /\ args.after.returned.value.success
    /\ args.file_path = format_path(args.after.call.path) \o args.after.call.name
    /\ ret.value.error # Some(<<"Download failed", "ServiceFault">>)

\* C8: after a successful upload_file(file, path),
\* download_file(format_path(path) + file.name) returns exactly the uploaded
\* bytes and no error.
C8_UploadDownloadRoundTrip ==
    RoundTrip => ret.value = [content |-> Some(args.after.call.body), error |-> None]

\* A non-empty body was uploaded into a folder given with slashes around
\* it, and downloaded.
C8_Witness ==
    /\ RoundTrip
    /\ args.after.call.body # <<>>
    /\ args.after.call.path = <<"/", "a", "/">>
    /\ ret.value.content = Some(args.after.call.body)

\* C9, for names without '/': after a successful create_folder(name, parent),
\* list_objects(parent) holds a folder entry whose name is name and whose
\* path is the key create_folder wrote.
C9_CreatedFolderIsListed ==
    Done("create_folder") /\ ret.value.success /\ SlashPositions(args.folder_name) = {} =>
        LET folders == ListObjectsValue(store, args.parent_path).folders
        IN  \E i \in 1..Len(folders) :
                /\ folders[i].name = args.folder_name
                /\ folders[i].path = FolderKey(args.folder_name, args.parent_path)

\* The value each operation returns when an object-store call raised.
FaultValue(op, value) ==
    CASE op = "list_objects" -> value = [folders |-> <<>>, files |-> <<>>]
      [] op \in {"upload_file", "delete_object", "create_folder", "rename_object"} ->
            value.success = FALSE
      [] op = "download_file" -> value.content = None /\ value.error # None
      [] op = "search_files" -> value = <<>>
      [] op = "generate_presigned_url" -> value = None
      [] op \in {"get_folder_size", "get_file_metadata"} -> "error" \in DOMAIN value
      [] op = "get_file_preview" -> value.type = "error"

\* C10: a fault raised by an object-store call never leaves a public
\* operation; the operation returns its failure value instead.
C10_FaultsAreReturned ==
    pc = "done" => /\ ~ret.escaped
                   /\ ret.faulted => FaultValue(ret.op, ret.value)

\* A rename has failed after it had already changed the bucket.
C10_Witness ==
    /\ Done("rename_object")
    /\ ret.faulted
    /\ ret.value.success = FALSE
    /\ store # pre

\* The calls of the last operation to the object-store request api.
CallsTo(api) == {i \in 1..Len(calls) : calls[i].api = api}

\* C12: get_file_preview issues the head request before any body fetch;
\* when the size is strictly greater than max_size it returns the 'error'
\* variant without a get_object, and an object whose size is at most
\* max_size (equal included) is fetched once the head request has answered.
C12_HeadBeforeBodyAndSizeGate ==
    Done("get_file_preview") =>
        LET size == Len(pre[args.file_path])
            head_answered == ~(ret.faulted /\ Len(calls) = 1)
        IN  /\ calls # <<>> /\ calls[1].api = "head_object"
            /\ \A i \in CallsTo("get_object") : \E j \in CallsTo("head_object") : j < i
            /\ args.file_path \in DOMAIN pre /\ size > args.max_size =>
                  CallsTo("get_object") = {} /\ ret.value.type = "error"
            /\ args.file_path \in DOMAIN pre /\ size <= args.max_size /\ head_answered =>
                  CallsTo("get_object") # {}
            /\ store = pre

\* A file of exactly max_size bytes, not empty, has been fetched and shown.
C12_Witness ==
    /\ Done("get_file_preview")
    /\ args.file_path \in DOMAIN pre
    /\ Len(pre[args.file_path]) = args.max_size
    /\ args.max_size > 0
    /\ CallsTo("get_object") # {}
    /\ ret.value.type = "text"

\* The prefix search_files resolves path to.
SearchPrefix == IF args.path # <<>> THEN _format_path(args.path) ELSE app_prefix \o Slash

\* The last '/'-separated segment of key holds the searched term, letter
\* case apart.
NameMatches(key) == Contains(Lower(LastSegment(key)), Lower(args.search_term))

\* C13: search_files(term, path) without a fault returns exactly the keys
\* under the resolved prefix, at any depth and on any page, whose last
\* segment holds term as a case-insensitive substring, each of them once.
C13_SearchReturnsExactlyTheMatches ==
    Done("search_files") /\ ~ret.faulted =>
        LET expected == {k \in KeysUnder(store, SearchPrefix) : NameMatches(k)}
        IN  /\ \A k \in expected :
                  Cardinality({i \in 1..Len(ret.value) : ret.value[i].path = k}) = 1
            /\ \A i \in 1..Len(ret.value) : ret.value[i].path \in expected

\* A search over more keys than a page holds has returned a key of the
\* second page, two levels below the prefix, that matches in another letter
\* case, and has left a key out.
C13_Witness ==
    /\ Done("search_files")
    /\ ~ret.faulted
    /\ Cardinality(KeysUnder(store, SearchPrefix)) > PageSize
    /\ \E i \in 1..Len(ret.value) :
          /\ ret.value[i].path \notin Range(ListV2(store, SearchPrefix, <<>>).Contents)
          /\ ~Contains(LastSegment(ret.value[i].path), args.search_term)
          /\ Len(ret.value[i].path) > Len(SearchPrefix) + 2
    /\ Len(ret.value) < Cardinality(KeysUnder(store, SearchPrefix))

\* The sum of the sizes of the objects of st at the keys of the set ks.
RECURSIVE SizeOfAll(_, _)
SizeOfAll(st, ks) ==
    IF ks = {} THEN 0
    ELSE LET k == CHOOSE x \in ks : TRUE
         IN  Len(st[k]) + SizeOfAll(st, ks \ {k})

\* folder_path with '/' appended when it lacks it.
FolderPrefix ==
    IF EndsWith(args.folder_path, Slash) THEN args.folder_path
    ELSE args.folder_path \o Slash

\* C15: get_folder_size(p) without a fault returns the sum of the sizes and
\* the number of all keys that begin with p ('/' appended when p lacks it),
\* over every page, and leaves the bucket unchanged.
C15_FolderSizeCountsEveryKey ==
    Done("get_folder_size") /\ ~ret.faulted =>
        /\ ret.value.total_size = SizeOfAll(store, KeysUnder(store, FolderPrefix))
        /\ ret.value.file_count = Cardinality(KeysUnder(store, FolderPrefix))
        /\ store = pre

\* The size of a folder given without its '/', of more keys than a page
\* holds, some of them empty and some not, has been computed.
C15_Witness ==
    /\ Done("get_folder_size")
    /\ ~ret.faulted
    /\ ~EndsWith(args.folder_path, Slash)
    /\ ret.value.file_count > PageSize
    /\ ret.value.total_size > 0
    /\ ret.value.total_size < ret.value.file_count

\* rename_object has returned from the renaming of a file.
FileRenameReturned == Done("rename_object") /\ ~EndsWith(args.old_path, Slash)

\* The delete of the rename was issued and raised: it is the last call of a
\* rename that ended in its except block.
RenameDeleteFaulted == ret.faulted /\ CallsTo("delete_object") # {}

\* parent(old_path) + '/' + new_name
SiblingKey(old_path, new_name) == JoinAllButLast(old_path) \o Slash \o new_name

\* C16: in a file rename the copy to the new key is issued before the
\* delete of the old key; when the copy succeeds and the delete raises,
\* rename_object returns (False, message) and the object is at the old key
\* and at the new key with the content it had.
C16_FileRenameCopiesBeforeDelete ==
    FileRenameReturned =>
        LET old == args.old_path
            new == SiblingKey(args.old_path, args.new_name)
        IN  /\ \A i \in CallsTo("delete_object") :
                  \E j \in CallsTo("copy_object:Key") : j < i /\ calls[j].key = new
            /\ RenameDeleteFaulted =>
                  /\ ret.value.success = FALSE
                  /\ old \in DOMAIN store /\ store[old] = pre[old]
                  /\ new \in DOMAIN store /\ store[new] = pre[old]

\* A file that is not empty was copied to a key the bucket did not hold,
\* and the delete of the old key raised.
C16_Witness ==
    /\ FileRenameReturned
    /\ RenameDeleteFaulted
    /\ pre[args.old_path] # <<>>
    /\ SiblingKey(args.old_path, args.new_name) \notin DOMAIN pre
    /\ Cardinality(DOMAIN store) = Cardinality(DOMAIN pre) + 1

\* C17: a folder that exists as a marker key ending in '/' under the
\* searched prefix, and whose folder name holds the non-empty search term,
\* is in the results of search_files as an entry of type 'folder'.
C17_SearchFindsFolders ==
    Done("search_files") /\ ~ret.faulted /\ args.search_term # <<>> =>
        \A k \in KeysUnder(store, SearchPrefix) :
            /\ EndsWith(k, Slash)
            /\ Contains(Lower(LastSegment(RStrip(k))), Lower(args.search_term))
            => \E i \in 1..Len(ret.value) :
                  ret.value[i].path = k /\ ret.value[i].type = "folder"

\* rename_object has returned from a folder rename that a fault ended.
FolderRenameFaulted ==
    Done("rename_object") /\ EndsWith(args.old_path, Slash) /\ ret.faulted

\* The children of the renamed folder in the order the listing yields them.
Children == Sorted(KeysUnder(pre, args.old_path))

\* The key the child at old_key is renamed to.
ChildNewKey(old_key) ==
    SiblingFolderKey(args.old_path, args.new_name)
        \o SubSeq(old_key, Len(args.old_path) + 1, Len(old_key))

\* The last call of the rename, the one that raised.
LastCall == calls[Len(calls)].api

\* The number k of the child in whose processing the fault came: the child
\* whose copy or delete raised, or the child that a page request that raised
\* was to bring.
FaultedChild ==
    IF LastCall = "list_objects_v2"
    THEN Cardinality(CallsTo("copy_object:Key")) + 1
    ELSE Cardinality(CallsTo("copy_object:Key"))

\* No call followed the one that raised: every copy before it has its
\* delete.
StoppedAtFault ==
    Cardinality(CallsTo("delete_object")) =
        IF LastCall = "copy_object:Key" THEN Cardinality(CallsTo("copy_object:Key")) - 1
        ELSE Cardinality(CallsTo("copy_object:Key"))

\* The object at key is what it was before the call, or absent as before.
Untouched(key) ==
    /\ key \in DOMAIN store <=> key \in DOMAIN pre
    /\ key \in DOMAIN pre => store[key] = pre[key]

\* The child at old_key has been moved, or is where it was.
Moved(old_key) ==
    /\ old_key \notin DOMAIN store
    /\ ChildNewKey(old_key) \in DOMAIN store
    /\ store[ChildNewKey(old_key)] = pre[old_key]
Kept(old_key) == old_key \in DOMAIN store /\ store[old_key] = pre[old_key]
Copied(old_key) ==
    ChildNewKey(old_key) \in DOMAIN store /\ store[ChildNewKey(old_key)] = pre[old_key]

\* C18 as stated: a folder rename that faults at its k-th child returns
\* (False, message), issues no further call and rolls nothing back: the
\* children before k are only under the new prefix, those after k only under
\* the old one, and child k is under the old one, and under the new one only
\* if its copy had succeeded.
C18_FaultLeavesPartialRename ==
    FolderRenameFaulted =>
        /\ ret.value.success = FALSE
        /\ StoppedAtFault
        /\ \A i \in 1..Len(Children) :
              LET old_key == Children[i]
              IN  IF i < FaultedChild THEN Moved(old_key)
                  ELSE IF i > FaultedChild
                  THEN Kept(old_key) /\ ChildNewKey(old_key) \notin DOMAIN store
                  ELSE /\ Kept(old_key)
                       /\ ChildNewKey(old_key) \in DOMAIN store => LastCall = "delete_object"

\* The new folder key lies under the old one: the new name is the current
\* name, or begins with it and a '/'.
RenamedUnderItself ==
    StartsWith(SiblingFolderKey(args.old_path, args.new_name), args.old_path)

\* C18 as amended: the same when the new folder key does not lie under the
\* old one, the children after k being at their old keys with nothing written
\* at their new keys, and child k copied exactly if its copy had succeeded.
C18_FaultLeavesPartialRenameToSibling ==
    FolderRenameFaulted /\ ~RenamedUnderItself =>
        /\ ret.value.success = FALSE
        /\ StoppedAtFault
        /\ \A i \in 1..Len(Children) :
              LET old_key == Children[i]
              IN  IF i < FaultedChild THEN Moved(old_key)
                  ELSE IF i > FaultedChild
                  THEN Kept(old_key) /\ Untouched(ChildNewKey(old_key))
                  ELSE /\ Kept(old_key)
                       /\ IF LastCall = "delete_object" THEN Copied(old_key)
                          ELSE Untouched(ChildNewKey(old_key))

\* A rename of a folder of more children than a page holds has faulted at
\* the delete of a child that is neither the first nor the last.
C18_Witness ==
    /\ FolderRenameFaulted
    /\ ~RenamedUnderItself
    /\ Len(Children) > PageSize
    /\ LastCall = "delete_object"
    /\ FaultedChild > 1
    /\ FaultedChild < Len(Children)

\* delete_object has returned from the deletion of a folder that a fault
\* ended.
FolderDeleteFaulted ==
    Done("delete_object") /\ EndsWith(args.object_path, Slash) /\ ret.faulted

\* The keys under the deleted folder in the order of the listing.
KeysToDelete == Sorted(KeysUnder(pre, args.object_path))

\* C19: when the deletion of a folder with M keys under it faults after N
\* deletions have been applied, the first N keys are gone, the other M - N
\* remain as they were, no other key is touched, and delete_object returns
\* (False, message).
C19_FaultedFolderDeleteIsPartial ==
    FolderDeleteFaulted =>
        /\ ret.value.success = FALSE
        /\ \E N \in 0..Len(KeysToDelete) :
              /\ store = Remove(pre, Range(Take(KeysToDelete, N)))
              /\ Cardinality(KeysUnder(store, args.object_path)) = Len(KeysToDelete) - N

\* A folder deletion has faulted with some of its keys deleted and some
\* left.
C19_Witness ==
    /\ FolderDeleteFaulted
    /\ KeysUnder(store, args.object_path) # {}
    /\ KeysUnder(store, args.object_path) # KeysUnder(pre, args.object_path)
    /\ DOMAIN store # KeysUnder(store, args.object_path)

\* C20: once a rename and another actor's put to a key under the old path
\* have both completed, in whatever order their requests reached the object
\* store, the content the other actor wrote is in the bucket at the key it
\* was put at or at the key that key is renamed to.
C20_ConcurrentWriteSurvives ==
    Done("rename_object") /\ OtherPutCalls # {} =>
        LET key == calls[CHOOSE i \in OtherPutCalls : TRUE].key
            new_key == IF EndsWith(args.old_path, Slash)
                       THEN SiblingFolderKey(args.old_path, args.new_name)
                                \o SubSeq(key, Len(args.old_path) + 1, Len(key))
                       ELSE JoinAllButLast(args.old_path) \o Slash \o args.new_name
        IN  \/ key \in DOMAIN store /\ store[key] = OtherBody
            \/ new_key \in DOMAIN store /\ store[new_key] = OtherBody

\* The user opens a folder of the table, by its card or by "Open folder".
OpensFolder == RowsShown /\ args'.op \in {"folder_nav", "open_folder_main"}

\* The folders of the table whose button sets the current path as this step
\* does.
FoldersOpened ==
    {idx \in 1..Len(ui.all_items) :
        /\ ui.all_items[idx].type = "folder"
        /\ ui'.current_path = FolderNavPath(ui.all_items[idx].path)}

\* C21: opening a folder of the listing, whatever its name and depth, sets
\* current_path to a value that format_path maps back to the path of that
\* folder, so that the next listing is the listing of the folder.
C21_OpenedFolderIsListedNext ==
    [][OpensFolder =>
          \A idx \in FoldersOpened :
              format_path(ui'.current_path) = ui.all_items[idx].path]_vars

\* The loop of "Delete Selected" is running: the paths still to delete.
Deleting == ui.to_delete # <<>>

\* C22: delete_object is called on the selected items only when "Delete
\* Selected" was clicked twice on that selection, the first click having
\* shown the warning for it: the paths the loop deletes are the paths the
\* warning was shown for.
C22_DeletesOnlyWhatWasConfirmed ==
    Deleting =>
        \E n \in 1..Len(ui.warned) :
            ui.to_delete = SubSeq(ui.warned, n, Len(ui.warned))

\* rename_object is running or has returned.
Renaming ==
    /\ args.op = "rename_object"
    /\ pc \in {"rename_list", "rename_copy", "rename_delete", "done"}

\* The objects under the old path when rename_object was called: the file,
\* or every key that begins with the folder key.
RenamedKeys ==
    IF EndsWith(args.old_path, Slash)
    THEN KeysUnder(pre, args.old_path)
    ELSE {args.old_path} \cap DOMAIN pre

\* The key the rename gives to old_key.
RenamedKey(old_key) ==
    IF EndsWith(args.old_path, Slash)
    THEN ChildNewKey(old_key)
    ELSE SiblingKey(args.old_path, args.new_name)

\* The content old_key had before the call is at key.
Holds(key, old_key) == key \in DOMAIN store /\ store[key] = pre[old_key]

\* C23: in every state of rename_object, before, between and after its
\* requests, whether it succeeds or a request raises, the content of each
\* object that was under the old path before the call is in the bucket at
\* its old key or at its new key.
C23_RenameLosesNothing ==
    Renaming =>
        \A old_key \in RenamedKeys :
            Holds(old_key, old_key) \/ Holds(RenamedKey(old_key), old_key)

\* C24: rename_object leaves every object whose key was not under the old
\* path as it was before the call: it is still in the bucket with the same
\* content, an object at a destination key included.
C24_RenameKeepsOtherObjects ==
    Done("rename_object") =>
        \A key \in DOMAIN pre \ RenamedKeys :
            key \in DOMAIN store /\ store[key] = pre[key]

\* C25: no object-store call, the head_bucket of the manager's construction
\* included, is issued in a run of main() unless check_session() returned
\* true for that run; from a logout to the next successful login no call is
\* issued.
C25_CallsOnlyWhenAuthenticated ==
    [][calls' # <<>> => ui.authenticated]_vars

\* The session was used, the user has logged out and the login page is
\* shown: objects were written while logged in and nothing is called now.
C25_Witness ==
    /\ pc = "idle"
    /\ ~ui.authenticated
    /\ args.op = "show_login_page"
    /\ store # EmptyStore
    /\ calls = <<>>

====
